---- MODULE Spec2Model ----
(***************************************************************************)
(* PawPal+ scheduling core (src/pawpal_system.py): Task, DailySchedule and *)
(* Scheduler.  Durations are integer minutes; hours are Python floats      *)
(* (IEEE-754 binary64), modelled bit-exactly on a fixed-point grid.        *)
(***************************************************************************)
EXTENDS Integers, Sequences, FiniteSets, TLC

(***************************************************************************)
(* Python float arithmetic.  A float x is the record [neg, mag] where mag  *)
(* is the three-limb natural <<h, m, l>> = |x| * 2^59 written in base      *)
(* FBase.  Every float the program computes from minute counts is a        *)
(* multiple of 2^-58, so it sits on this grid exactly; each operation      *)
(* computes the exact result and rounds it to FMantissa significant bits,  *)
(* ties to even, as the hardware does.                                     *)
(***************************************************************************)
FMantissa == 53
FBase == 4194304
FTop == 32768

RECURSIVE BitLen(_)
BitLen(n) == IF n = 0 THEN 0 ELSE 1 + BitLen(n \div 2)

MagBitLen(a) ==
    IF a[1] > 0 THEN 44 + BitLen(a[1])
    ELSE IF a[2] > 0 THEN 22 + BitLen(a[2])
    ELSE BitLen(a[3])

MagLt(a, b) ==
    \/ a[1] < b[1]
    \/ a[1] = b[1] /\ a[2] < b[2]
    \/ a[1] = b[1] /\ a[2] = b[2] /\ a[3] < b[3]

MagAdd(a, b) ==
    LET l == a[3] + b[3]
        m == a[2] + b[2] + (l \div FBase)
        h == a[1] + b[1] + (m \div FBase)
    IN  <<h, m % FBase, l % FBase>>

\* a - b for a >= b
MagSub(a, b) ==
    LET l  == a[3] - b[3]
        bl == IF l < 0 THEN 1 ELSE 0
        m  == a[2] - b[2] - bl
        bm == IF m < 0 THEN 1 ELSE 0
        h  == a[1] - b[1] - bm
    IN  <<h, m + bm * FBase, l + bl * FBase>>

\* round an exact magnitude to FMantissa significant bits, ties to even;
\* sticky says that the exact value lies strictly above the grid point a
FRound(a, sticky) ==
    LET s == MagBitLen(a) - FMantissa
    IN  IF s <= 0 THEN a
        ELSE LET p    == 2 ^ s
                 r    == a[3] % p
                 half == p \div 2
                 odd  == (a[3] \div p) % 2 = 1
                 up   == r > half \/ (r = half /\ (sticky \/ odd))
                 base == <<a[1], a[2], a[3] - r>>
             IN  IF up THEN MagAdd(base, <<0, 0, p>>) ELSE base

FMake(neg, mag) == [neg |-> neg /\ mag # <<0, 0, 0>>, mag |-> mag]

\* float(n) for an integer n >= 0
FFromInt(n) == FMake(FALSE, <<n * FTop, 0, 0>>)

\* n / k for an integer n >= 0 and a float k holding a small integer (60.0)
FDivInt(n, k) ==
    LET top == n * FTop
        q2  == top \div k
        r2  == top % k
        q1  == (r2 * FBase) \div k
        r1  == (r2 * FBase) % k
        q0  == (r1 * FBase) \div k
        r0  == (r1 * FBase) % k
    IN  FMake(FALSE, FRound(<<q2, q1, q0>>, r0 # 0))

FNeg(x) == FMake(~x.neg, x.mag)

\* x + y
FAdd(x, y) ==
    IF x.neg = y.neg THEN FMake(x.neg, FRound(MagAdd(x.mag, y.mag), FALSE))
    ELSE IF MagLt(x.mag, y.mag)
         THEN FMake(y.neg, FRound(MagSub(y.mag, x.mag), FALSE))
         ELSE FMake(x.neg, FRound(MagSub(x.mag, y.mag), FALSE))

\* x - y
FSub(x, y) == FAdd(x, FNeg(y))

\* x < y
FLt(x, y) ==
    IF x.neg # y.neg THEN x.neg
    ELSE IF x.neg THEN MagLt(y.mag, x.mag) ELSE MagLt(x.mag, y.mag)

\* x <= y
FLe(x, y) == ~FLt(y, x)

(***************************************************************************)
(* Program constants and the values a caller can pass.                     *)
(***************************************************************************)
PRIORITY_MIN == 1
PRIORITY_MAX == 5

\* Python's None
None == "None"

\* dates are day ordinals from 1 on; an absent date (due_date = None) is 0
NoDate == 0

\* datetime_date.today()
Today == 1000

\* the three recurring frequencies of Task.__init__ and complete_task
Recurring == {"daily", "weekly", "monthly"}

(***************************************************************************)
(* Bounds of the model.                                                    *)
(***************************************************************************)
\* longest task list a caller hands to the Scheduler constructor
MaxTasks == 4
\* most Task objects alive in one run (complete_task allocates new ones)
MaxHeap == 5
\* most entries in a DailySchedule (add_task can be repeated without end)
MaxScheduled == 3
\* most add_task/remove_task calls made on one DailySchedule
MaxEdits == 4
\* most Task objects a caller constructs one after the other
MaxNew == 2

(***************************************************************************)
(* State.  heap[oid] is the Task object with identity oid; every list of   *)
(* tasks is a sequence of oids, so that two lists can share an object.     *)
(***************************************************************************)
VARIABLES
    heap,             \* Seq(Task record): all Task objects, indexed by identity
    tasks,            \* Scheduler.tasks: Seq(oid)
    caller_tasks,     \* the list the caller passed to Scheduler(...): Seq(oid)
    same_list,        \* whether Scheduler.tasks is that very list object
    available,        \* Owner.available_hours_per_day (float)
    explanation_log,  \* Scheduler.explanation_log: Seq(message)
    schedule,         \* the DailySchedule in the caller's hands
    edits,            \* how many add_task/remove_task calls the caller made on it
    ret               \* the last call: its name, arguments and return value

vars == <<heap, tasks, caller_tasks, same_list, available, explanation_log, schedule, edits, ret>>

(***************************************************************************)
(* Task                                                                    *)
(***************************************************************************)
\* the assignments of Task.__init__, made once duration and priority have
\* passed its checks and are whole numbers
Task(name, category, duration, priority, preferred_time, notes, frequency, completed, due_date) ==
    [name |-> name, category |-> category, duration |-> duration,
     priority |-> priority, preferred_time |-> preferred_time,
     notes |-> notes, frequency |-> frequency, completed |-> completed,
     due_date |-> IF due_date = NoDate /\ frequency \in Recurring
                  THEN Today ELSE due_date]

get_duration_hours(t) == FDivInt(t.duration, 60)

\* A number a caller passes for duration or priority is an int or a float
\* whose fraction is .0 or .5; it is modelled by twice its value (2.5 is 5).
Num(whole) == 2 * whole

\* int(x): the fraction dropped, towards zero
int(x) == IF x >= 0 THEN x \div 2 ELSE 0 - ((0 - x) \div 2)

\* the outcome of a call that can raise: the exception and the values returned
Raise(exception) == [raised |-> exception, value |-> <<>>]
Return(value) == [raised |-> None, value |-> <<value>>]

\* a plausible slip: only a negative duration refused
duration_refused_negative_only(duration) == duration < Num(0)

\* "if duration <= 0" of Task.__init__
duration_refused(duration) == duration <= Num(0)

\* a plausible slip: the upper bound of the range taken as exclusive
priority_refused_exclusive_max(priority) ==
    ~(Num(PRIORITY_MIN) <= priority /\ priority < Num(PRIORITY_MAX))

\* "if not (PRIORITY_MIN <= priority <= PRIORITY_MAX)" of Task.__init__ and
\* of set_priority
priority_refused(priority) ==
    ~(Num(PRIORITY_MIN) <= priority /\ priority <= Num(PRIORITY_MAX))

\* Task(...): the constructor called with any duration and priority
Task_init(name, category, duration, priority, preferred_time, notes, frequency, completed, due_date) ==
    IF duration_refused(duration) THEN Raise("ValueError")
    ELSE IF priority_refused(priority) THEN Raise("ValueError")
    ELSE Return(Task(name, category, int(duration), int(priority),
                     preferred_time, notes, frequency, completed, due_date))

\* task.set_priority(priority): the exception raised and the task afterwards
set_priority(task, priority) ==
    IF priority_refused(priority) THEN [Raise("ValueError") EXCEPT !.value = <<task>>]
    ELSE Return([task EXCEPT !.priority = int(priority)])

\* a plausible slip: the duration tie-break left out
Task_lt_no_tiebreak(a, b) == a.priority > b.priority

\* a plausible slip: the duration tie-break written with <=
Task_lt_or_equal(a, b) ==
    IF a.priority # b.priority THEN a.priority > b.priority
    ELSE a.duration <= b.duration

\* Task.__lt__
Task_lt(a, b) ==
    IF a.priority # b.priority THEN a.priority > b.priority
    ELSE a.duration < b.duration

\* a plausible slip: the completion status taken into the comparison
Task_eq_with_completed(a, b) ==
    /\ a.name = b.name
    /\ a.category = b.category
    /\ a.duration = b.duration
    /\ a.priority = b.priority
    /\ a.frequency = b.frequency
    /\ a.completed = b.completed

\* a plausible slip: the due date taken into the comparison
Task_eq_with_due_date(a, b) ==
    /\ a.name = b.name
    /\ a.category = b.category
    /\ a.duration = b.duration
    /\ a.priority = b.priority
    /\ a.frequency = b.frequency
    /\ a.due_date = b.due_date

\* Task.__eq__
Task_eq(a, b) ==
    /\ a.name = b.name
    /\ a.category = b.category
    /\ a.duration = b.duration
    /\ a.priority = b.priority
    /\ a.frequency = b.frequency

\* truthiness of a preferred_time value
Truthy(x) == x # None /\ x # ""

(***************************************************************************)
(* sorted(): a stable sort of a list of Task objects.  by = "lt" compares  *)
(* the tasks with Task.__lt__ (sorted(tasks)), by = "key" compares their   *)
(* optimize_schedule keys (sorted(tasks, key=...)).  Each element is       *)
(* inserted after every element it does not sort strictly before.          *)
(***************************************************************************)
\* a plausible slip: afternoon and evening exchanged in the table
time_order_swapped(preferred_time) ==
    CASE preferred_time = "morning" -> 1
      [] preferred_time = "afternoon" -> 3
      [] preferred_time = "evening" -> 2
      [] OTHER -> 4

\* time_order.get(task.preferred_time, 4)
time_order(preferred_time) ==
    CASE preferred_time = "morning" -> 1
      [] preferred_time = "afternoon" -> 2
      [] preferred_time = "evening" -> 3
      [] OTHER -> 4

\* a plausible slip: the last key component negated, longest task first
KeyLt_longest_first(a, b) ==
    IF time_order(a.preferred_time) # time_order(b.preferred_time)
    THEN time_order(a.preferred_time) < time_order(b.preferred_time)
    ELSE IF (0 - a.priority) # (0 - b.priority)
         THEN (0 - a.priority) < (0 - b.priority)
         ELSE (0 - a.duration) < (0 - b.duration)

\* the sort key of optimize_schedule, compared as Python compares tuples
KeyLt(a, b) ==
    IF time_order(a.preferred_time) # time_order(b.preferred_time)
    THEN time_order(a.preferred_time) < time_order(b.preferred_time)
    ELSE IF (0 - a.priority) # (0 - b.priority)
         THEN (0 - a.priority) < (0 - b.priority)
         ELSE a.duration < b.duration

\* the comparison sorted() makes between two elements
SortsBefore(by, a, b) == IF by = "lt" THEN Task_lt(a, b) ELSE KeyLt(a, b)

RECURSIVE InsertPos(_, _, _, _, _)
InsertPos(by, h, out, x, i) ==
    IF i > Len(out) THEN i
    ELSE IF SortsBefore(by, h[x], h[out[i]]) THEN i
    ELSE InsertPos(by, h, out, x, i + 1)

Insert(by, h, out, x) ==
    LET p == InsertPos(by, h, out, x, 1)
    IN  SubSeq(out, 1, p - 1) \o <<x>> \o SubSeq(out, p, Len(out))

RECURSIVE SortedFrom(_, _, _, _, _)
SortedFrom(by, h, s, i, out) ==
    IF i > Len(s) THEN out
    ELSE SortedFrom(by, h, s, i + 1, Insert(by, h, out, s[i]))

Sorted(by, h, s) == SortedFrom(by, h, s, 1, <<>>)

(***************************************************************************)
(* Scheduler: the explanation log.  A message is its kind, the name or     *)
(* period it mentions, the count it mentions and the task names it lists.  *)
(***************************************************************************)
Msg(kind, text, n, names) == [kind |-> kind, text |-> text, n |-> n, names |-> names]

RECURSIVE Names(_, _)
Names(h, lst) ==
    IF lst = <<>> THEN <<>> ELSE <<h[Head(lst)].name>> \o Names(h, Tail(lst))

RECURSIVE SumDuration(_, _)
SumDuration(h, lst) ==
    IF lst = <<>> THEN 0 ELSE h[Head(lst)].duration + SumDuration(h, Tail(lst))

\* a plausible slip: the completion filter left out
get_incomplete_tasks_all(h, ts) == ts

\* a plausible slip: the completion filter inverted
get_incomplete_tasks_inverted(h, ts) == SelectSeq(ts, LAMBDA o : h[o].completed)

\* Scheduler.get_incomplete_tasks
get_incomplete_tasks(h, ts) == SelectSeq(ts, LAMBDA o : ~h[o].completed)

\* Scheduler.prioritize_tasks: the returned list
prioritize_tasks(h, tasks_to_sort) == Sorted("lt", h, tasks_to_sort)

\* Scheduler.prioritize_tasks: the messages it logs
prioritize_log(h, tasks_to_sort) ==
    LET sorted_tasks == prioritize_tasks(h, tasks_to_sort)
    IN  <<Msg("sorted", "", Len(sorted_tasks), <<>>)>> \o
        (IF sorted_tasks # <<>>
         THEN <<Msg("highest", h[sorted_tasks[1]].name, h[sorted_tasks[1]].priority, <<>>)>>
         ELSE <<>>)

\* the exception lst[i] raises, None when there is the element (Python's
\* lst[0] is lst[1] here)
subscript_raises(lst, i) == IF i \in 1..Len(lst) THEN None ELSE "IndexError"

\* prioritize_tasks: the exception it ends with; "if sorted_tasks:" guards
\* the one subscript, sorted_tasks[0]
prioritize_raises(h, tasks_to_sort) ==
    LET sorted_tasks == prioritize_tasks(h, tasks_to_sort)
    IN  IF sorted_tasks # <<>> THEN subscript_raises(sorted_tasks, 1) ELSE None

\* a plausible slip: the budget test made strict
fits_strict(total_hours, task_hours, avail) == FLt(FAdd(total_hours, task_hours), avail)

\* the test "total_hours + task_hours <= available"
fits(total_hours, task_hours, avail) == FLe(FAdd(total_hours, task_hours), avail)

\* Scheduler.fit_to_time_constraint: the loop from position i on
RECURSIVE FitLoop(_, _, _, _, _)
FitLoop(h, avail, sorted_tasks, i, acc) ==
    IF i > Len(sorted_tasks) THEN acc
    ELSE LET task_hours == get_duration_hours(h[sorted_tasks[i]])
             name == h[sorted_tasks[i]].name
         IN  IF fits(acc.total_hours, task_hours, avail)
             THEN FitLoop(h, avail, sorted_tasks, i + 1,
                    [selected |-> Append(acc.selected, sorted_tasks[i]),
                     total_hours |-> FAdd(acc.total_hours, task_hours),
                     log |-> Append(acc.log, Msg("included", name, 0, <<>>))])
             ELSE FitLoop(h, avail, sorted_tasks, i + 1,
                    [selected |-> acc.selected,
                     total_hours |-> acc.total_hours,
                     log |-> Append(acc.log, Msg("skipped", name, 0, <<>>))])

\* Scheduler.fit_to_time_constraint: selected list, final total and messages
fit_run(h, avail, sorted_tasks) ==
    LET r == FitLoop(h, avail, sorted_tasks, 1, [selected |-> <<>>, total_hours |-> FFromInt(0), log |-> <<>>])
    IN  [selected |-> r.selected, total_hours |-> r.total_hours,
         log |-> Append(r.log, Msg("selected", "", Len(r.selected), <<>>))]

fit_to_time_constraint(h, avail, sorted_tasks) == fit_run(h, avail, sorted_tasks).selected

\* Scheduler.optimize_schedule: the returned list
optimize_schedule(h, selected_tasks) == Sorted("key", h, selected_tasks)

optimize_log == <<Msg("optimized", "", 0, <<>>)>>

(***************************************************************************)
(* Scheduler.detect_conflicts                                              *)
(***************************************************************************)
\* the bucket a task is grouped under
time_period(t) == IF Truthy(t.preferred_time) THEN t.preferred_time ELSE "unscheduled"

\* the keys of time_groups, in insertion order
RECURSIVE time_group_keys(_, _, _)
time_group_keys(h, lst, keys) ==
    IF lst = <<>> THEN keys
    ELSE LET p == time_period(h[Head(lst)])
         IN  time_group_keys(h, Tail(lst),
                IF \E i \in 1..Len(keys) : keys[i] = p THEN keys ELSE Append(keys, p))

\* time_groups[p]
time_group(h, lst, p) == SelectSeq(lst, LAMBDA o : time_period(h[o]) = p)

\* a plausible slip: one period length for every bucket
PERIOD_LENGTHS_all4(p) == FFromInt(4)

\* PERIOD_LENGTHS.get(time_period, 24.0)
PERIOD_LENGTHS(p) ==
    IF p \in {"morning", "afternoon", "evening"} THEN FFromInt(4) ELSE FFromInt(24)

\* a plausible slip: the crowding test without its "unscheduled" exclusion
bucket_warnings_unscheduled_crowds(h, p, group) ==
    IF Len(group) <= 1 THEN <<>>
    ELSE IF FLt(PERIOD_LENGTHS(p), FDivInt(SumDuration(h, group), 60))
         THEN <<Msg("overflow", p, Len(group), Names(h, group))>>
         ELSE IF Len(group) > 3
              THEN <<Msg("crowding", p, Len(group), Names(h, group))>>
              ELSE <<>>

\* the body of the loop over time_groups: the warnings one bucket adds
bucket_warnings(h, p, group) ==
    IF Len(group) <= 1 THEN <<>>
    ELSE LET total_hours == FDivInt(SumDuration(h, group), 60)
             period_length == PERIOD_LENGTHS(p)
         IN  IF FLt(period_length, total_hours)
             THEN <<Msg("overflow", p, Len(group), Names(h, group))>>
             ELSE IF Len(group) > 3 /\ p # "unscheduled"
                  THEN <<Msg("crowding", p, Len(group), Names(h, group))>>
                  ELSE <<>>

\* the keys of the PERIOD_LENGTHS table
PERIOD_KEYS == {"morning", "afternoon", "evening", "unscheduled"}

\* a plausible slip: PERIOD_LENGTHS[time_period], a KeyError for other labels
period_length_raises_subscript(p) == IF p \in PERIOD_KEYS THEN None ELSE "KeyError"

\* the exception PERIOD_LENGTHS.get(time_period, 24.0) raises: none, a
\* missing key gives the default
period_length_raises(p) == None

\* the exception the loop over time_groups ends with: the first one that the
\* body raises, for a bucket it does not skip
RECURSIVE raises_of(_, _, _)
raises_of(h, lst, keys) ==
    IF keys = <<>> THEN None
    ELSE LET group == time_group(h, lst, Head(keys))
             e == IF Len(group) <= 1 THEN None ELSE period_length_raises(Head(keys))
         IN  IF e # None THEN e ELSE raises_of(h, lst, Tail(keys))

\* detect_conflicts(tasks_to_check): the exception it ends with
detect_conflicts_raises(h, tasks_to_check) ==
    raises_of(h, tasks_to_check, time_group_keys(h, tasks_to_check, <<>>))

RECURSIVE warnings_of(_, _, _)
warnings_of(h, lst, keys) ==
    IF keys = <<>> THEN <<>>
    ELSE bucket_warnings(h, Head(keys), time_group(h, lst, Head(keys)))
         \o warnings_of(h, lst, Tail(keys))

\* detect_conflicts(tasks_to_check) for an explicit list
detect_conflicts(h, tasks_to_check) ==
    warnings_of(h, tasks_to_check, time_group_keys(h, tasks_to_check, <<>>))

(***************************************************************************)
(* DailySchedule                                                           *)
(***************************************************************************)
\* DailySchedule.__init__
DailySchedule == [scheduled_tasks |-> <<>>, total_duration |-> FFromInt(0), explanation |-> <<>>]

\* a plausible slip: a task that is already scheduled is not added again
add_task_once(h, sch, o, time) ==
    IF \E i \in 1..Len(sch.scheduled_tasks) : sch.scheduled_tasks[i][2] = o
    THEN sch
    ELSE [sch EXCEPT !.scheduled_tasks = Append(@, <<IF time # None THEN time
                                                     ELSE IF Truthy(h[o].preferred_time)
                                                          THEN h[o].preferred_time
                                                          ELSE "Unscheduled", o>>),
                     !.total_duration = FAdd(@, get_duration_hours(h[o]))]

\* DailySchedule.add_task; time = None when the caller gives no label
add_task(h, sch, o, time) ==
    LET label == IF time = None
                 THEN (IF Truthy(h[o].preferred_time) THEN h[o].preferred_time ELSE "Unscheduled")
                 ELSE time
    IN  [sch EXCEPT !.scheduled_tasks = Append(@, <<label, o>>),
                    !.total_duration = FAdd(@, get_duration_hours(h[o]))]

\* a plausible slip: the entry looked up by identity ("is") instead of ==
RECURSIVE remove_index_by_identity(_, _, _, _)
remove_index_by_identity(h, entries, o, i) ==
    IF i > Len(entries) THEN 0
    ELSE IF entries[i][2] = o THEN i
    ELSE remove_index_by_identity(h, entries, o, i + 1)

\* the index remove_task pops: the first entry equal to the argument, 0 if none
RECURSIVE remove_index(_, _, _, _)
remove_index(h, entries, o, i) ==
    IF i > Len(entries) THEN 0
    ELSE IF Task_eq(h[entries[i][2]], h[o]) THEN i
    ELSE remove_index(h, entries, o, i + 1)

\* DailySchedule.remove_task: the schedule afterwards
remove_task(h, sch, o) ==
    LET i == remove_index(h, sch.scheduled_tasks, o, 1)
    IN  IF i = 0 THEN sch
        ELSE [sch EXCEPT !.scheduled_tasks = SubSeq(@, 1, i - 1) \o SubSeq(@, i + 1, Len(@)),
                         !.total_duration = FSub(@, get_duration_hours(h[o]))]

\* a plausible slip: the comparison made strict
is_feasible_strict(sch, avail) == FLt(sch.total_duration, avail)

\* DailySchedule.is_feasible
is_feasible(sch, avail) == FLe(sch.total_duration, avail)

(***************************************************************************)
(* Scheduler.generate_plan                                                 *)
(***************************************************************************)
RECURSIVE add_all(_, _, _)
add_all(h, sch, lst) ==
    IF lst = <<>> THEN sch
    ELSE add_all(h, add_task(h, sch, Head(lst), None), Tail(lst))

\* a plausible slip: the log of earlier calls not cleared
cleared_log_kept(log) == log

\* "self.explanation_log = []" at the start of generate_plan
cleared_log(log) == <<>>

\* a plausible slip: step 4 calls detect_conflicts on the tasks it set out to
\* schedule, not on the ones that survived the fit
plan_from_optimized_checks_all(h, ts, tasks_to_schedule, fit, optimized_tasks) ==
    LET completed_count == Len(ts) - Len(tasks_to_schedule)
        conflicts       == detect_conflicts(h, tasks_to_schedule)
        log == <<Msg("generating", "pet", 0, <<>>),
                 Msg("owner_hours", "owner", 0, <<>>),
                 Msg("total", "", Len(ts), <<>>),
                 Msg("completed", "", completed_count, <<>>),
                 Msg("to_schedule", "", Len(tasks_to_schedule), <<>>)>>
               \o prioritize_log(h, tasks_to_schedule)
               \o fit.log
               \o optimize_log
               \o (IF conflicts # <<>>
                   THEN <<Msg("conflicts_detected", "", 0, <<>>)>> \o conflicts
                   ELSE <<Msg("no_conflicts", "", 0, <<>>)>>)
    IN  [raised |-> None,
         schedule |-> [add_all(h, DailySchedule, optimized_tasks) EXCEPT !.explanation = log],
         log |-> log]

\* generate_plan from step 4 on (detect conflicts, create the schedule, attach
\* the explanation): the exception it ends with (None when it returns), the
\* returned schedule and the messages it logs
plan_from_optimized(h, ts, tasks_to_schedule, fit, optimized_tasks) ==
    LET completed_count == Len(ts) - Len(tasks_to_schedule)
        conflicts       == detect_conflicts(h, optimized_tasks)
        context == <<Msg("generating", "pet", 0, <<>>),
                     Msg("owner_hours", "owner", 0, <<>>),
                     Msg("total", "", Len(ts), <<>>),
                     Msg("completed", "", completed_count, <<>>),
                     Msg("to_schedule", "", Len(tasks_to_schedule), <<>>)>>
        log == context
               \o prioritize_log(h, tasks_to_schedule)
               \o fit.log
               \o optimize_log
               \o (IF conflicts # <<>>
                   THEN <<Msg("conflicts_detected", "", 0, <<>>)>> \o conflicts
                   ELSE <<Msg("no_conflicts", "", 0, <<>>)>>)
    IN  IF prioritize_raises(h, tasks_to_schedule) # None
        THEN [raised |-> prioritize_raises(h, tasks_to_schedule),
              schedule |-> DailySchedule,
              log |-> context \o <<Msg("sorted", "", Len(tasks_to_schedule), <<>>)>>]
        ELSE IF detect_conflicts_raises(h, optimized_tasks) # None
        THEN [raised |-> detect_conflicts_raises(h, optimized_tasks),
              schedule |-> DailySchedule,
              log |-> context \o prioritize_log(h, tasks_to_schedule) \o fit.log \o optimize_log]
        ELSE [raised |-> None,
              schedule |-> [add_all(h, DailySchedule, optimized_tasks) EXCEPT !.explanation = log],
              log |-> log]

\* a plausible slip: the schedule built from the selected tasks as they are,
\* step 3 left out
plan_from_fit_unoptimized(h, ts, tasks_to_schedule, fit) ==
    plan_from_optimized(h, ts, tasks_to_schedule, fit, fit.selected)

\* generate_plan from step 3 on: the result of step 2 is computed once and
\* handed on, as the code keeps it in a local variable
plan_from_fit(h, ts, tasks_to_schedule, fit) ==
    CHOOSE plan \in {plan_from_optimized(h, ts, tasks_to_schedule, fit, optimized_tasks) :
                        optimized_tasks \in {optimize_schedule(h, fit.selected)}} : TRUE

\* generate_plan from step 2 on
plan_from_sorted(h, ts, avail, tasks_to_schedule, sorted_tasks) ==
    CHOOSE plan \in {plan_from_fit(h, ts, tasks_to_schedule, fit) :
                        fit \in {fit_run(h, avail, sorted_tasks)}} : TRUE

\* generate_plan from step 1 on
plan_from_filtered(h, ts, avail, tasks_to_schedule) ==
    CHOOSE plan \in {plan_from_sorted(h, ts, avail, tasks_to_schedule, sorted_tasks) :
                        sorted_tasks \in {prioritize_tasks(h, tasks_to_schedule)}} : TRUE

\* Scheduler.generate_plan
generate_plan(h, ts, avail, include_completed) ==
    CHOOSE plan \in {plan_from_filtered(h, ts, avail, tasks_to_schedule) :
                        tasks_to_schedule \in {IF include_completed THEN ts
                                               ELSE get_incomplete_tasks(h, ts)}} : TRUE

(***************************************************************************)
(* Scheduler.complete_task                                                 *)
(***************************************************************************)
\* a plausible slip: a calendar month of 31 days
period_days_calendar(frequency) ==
    CASE frequency = "daily" -> 1
      [] frequency = "weekly" -> 7
      [] frequency = "monthly" -> 31

\* timedelta added to the due date
period_days(frequency) ==
    CASE frequency = "daily" -> 1
      [] frequency = "weekly" -> 7
      [] frequency = "monthly" -> 30

\* a plausible slip: the notes not passed on to the constructor
next_task_without_notes(task) ==
    Task(task.name, task.category, task.duration, task.priority,
         task.preferred_time, "", task.frequency, FALSE,
         task.due_date + period_days(task.frequency))

\* a plausible slip: the next due date counted from today, not from the due
\* date of the completed task
next_task_from_today(task) ==
    Task(task.name, task.category, task.duration, task.priority,
         task.preferred_time, task.notes, task.frequency, FALSE,
         Today + period_days(task.frequency))

\* the Task that complete_task constructs for a recurring task
next_task(task) ==
    LET current_due == IF task.due_date # NoDate THEN task.due_date ELSE Today
        next_due    == current_due + period_days(task.frequency)
    IN  Task(task.name, task.category, task.duration, task.priority,
             task.preferred_time, task.notes, task.frequency, FALSE, next_due)

(***************************************************************************)
(* Calls.  ret records the last call: op its name, arg the list passed     *)
(* (<<>> when none is), dflt whether the optional argument was left out,   *)
(* task the Task passed (0 when none is), result the returned list and     *)
(* new the returned Task (0 for None), raised the exception the call ended  *)
(* with (None when it returned).                                           *)
(***************************************************************************)
Call(op, arg, dflt, task, result, new) == [op |-> op, arg |-> arg, dflt |-> dflt, task |-> task, result |-> result, new |-> new, raised |-> None]

\* a call that ended with an exception: it returns nothing
Raised(op, arg, dflt, task, exception) == [Call(op, arg, dflt, task, <<>>, 0) EXCEPT !.raised = exception]

NoCall == Call("none", <<>>, FALSE, 0, <<>>, 0)

\* the lists of Task objects a caller passes: runs of the objects it holds
ArgLists == {SubSeq([i \in 1..Len(heap) |-> i], a, b) : a \in 1..(Len(heap) + 1), b \in 0..Len(heap)}

\* "tasks if tasks else []" of Scheduler.__init__: a non-empty list is kept as it is, the same object; for an empty list
\* (falsy) the scheduler makes a new list of its own.
Scheduler_keeps(lst) == lst # <<>>

\* Scheduler(owner, pet, tasks) over a list of up to MaxTasks tasks from Pool
InitOf(Pool, Avails) ==
    /\ \E n \in 0..MaxTasks : heap \in [1..n -> Pool]
    /\ tasks = [i \in 1..Len(heap) |-> i]
    /\ caller_tasks = tasks
    /\ same_list = Scheduler_keeps(caller_tasks)
    /\ available \in Avails
    /\ explanation_log = <<>>
    /\ schedule = DailySchedule
    /\ edits = 0
    /\ ret = NoCall

\* scheduler.fit_to_time_constraint(lst), one call on a new Scheduler
FitToTimeConstraint(lst) ==
    /\ ret.op = "none"
    /\ explanation_log' = explanation_log \o fit_run(heap, available, lst).log
    /\ ret' = Call("fit_to_time_constraint", lst, FALSE, 0, fit_to_time_constraint(heap, available, lst), 0)
    /\ UNCHANGED <<heap, tasks, caller_tasks, same_list, available, schedule, edits>>

(***************************************************************************)
(* Specification of fit_to_time_constraint on its own                      *)
(***************************************************************************)
FitDurations == {1, 2, 30, 60}
FitMinutes == {0, 3, 32, 60}
FitPool == {Task(ToString(d), "walk", d, 3, None, "", "once", FALSE, NoDate) : d \in FitDurations}

InitFit == InitOf(FitPool, {FDivInt(m, 60) : m \in FitMinutes})
NextFit == \E lst \in ArgLists : FitToTimeConstraint(lst)
SpecFit == InitFit /\ [][NextFit]_vars

(***************************************************************************)
(* Properties of fit_to_time_constraint                                    *)
(***************************************************************************)
Range(s) == {s[i] : i \in 1..Len(s)}

\* the running total when the walk reaches position i: the hours of the
\* tasks of arg[1..i-1] that are in the result, added in input order
RECURSIVE RunningBefore(_, _, _)
RunningBefore(arg, result, i) ==
    IF i = 1 THEN FFromInt(0)
    ELSE LET prev == RunningBefore(arg, result, i - 1)
         IN  IF arg[i - 1] \in Range(result)
             THEN FAdd(prev, get_duration_hours(heap[arg[i - 1]]))
             ELSE prev

FitCalled == ret.op = "fit_to_time_constraint"

\* C1: fit_to_time_constraint returns a subsequence of its input in input
\* order, and the task at position i is in it if and only if the running
\* total of the included tasks before i plus its own hours is <= the
\* owner's available time.
C1_FitRule ==
    FitCalled =>
        /\ ret.result = SelectSeq(ret.arg, LAMBDA o : o \in Range(ret.result))
        /\ \A i \in 1..Len(ret.arg) :
              (ret.arg[i] \in Range(ret.result)) <=>
              FLe(FAdd(RunningBefore(ret.arg, ret.result, i),
                       get_duration_hours(heap[ret.arg[i]])), available)

\* a call in which a task is skipped, a later and smaller task is included,
\* and an included task brings the running total to exactly the budget
C1_Witness ==
    /\ FitCalled
    /\ \E i, j \in 1..Len(ret.arg) :
          /\ i < j
          /\ ret.arg[i] \notin Range(ret.result)
          /\ ret.arg[j] \in Range(ret.result)
          /\ heap[ret.arg[j]].duration < heap[ret.arg[i]].duration
    /\ \E k \in 1..Len(ret.arg) :
          /\ ret.arg[k] \in Range(ret.result)
          /\ FAdd(RunningBefore(ret.arg, ret.result, k),
                  get_duration_hours(heap[ret.arg[k]])) = available

(***************************************************************************)
(* Specification of the two sorting steps on their own                     *)
(***************************************************************************)
\* a plausible slip: the list sorted in place (tasks_to_sort.sort()), which
\* reorders the scheduler's own collection when no argument is given
PrioritizeTasks_in_place(lst, dflt) ==
    /\ ret.op = "none"
    /\ dflt => lst = <<>>
    /\ LET tasks_to_sort == IF dflt THEN tasks ELSE lst
       IN  /\ explanation_log' = explanation_log \o prioritize_log(heap, tasks_to_sort)
           /\ ret' = Call("prioritize_tasks", lst, dflt, 0, prioritize_tasks(heap, tasks_to_sort), 0)
           /\ tasks' = IF dflt THEN prioritize_tasks(heap, tasks) ELSE tasks
           /\ caller_tasks' = IF same_list THEN tasks' ELSE caller_tasks
    /\ UNCHANGED <<heap, same_list, available, schedule, edits>>

\* scheduler.prioritize_tasks() and scheduler.prioritize_tasks(lst)
PrioritizeTasks(lst, dflt) ==
    /\ ret.op = "none"
    /\ dflt => lst = <<>>
    /\ LET tasks_to_sort == IF dflt THEN tasks ELSE lst
       IN  IF prioritize_raises(heap, tasks_to_sort) # None
           THEN /\ explanation_log' = Append(explanation_log, Msg("sorted", "", Len(tasks_to_sort), <<>>))
                /\ ret' = Raised("prioritize_tasks", lst, dflt, 0, prioritize_raises(heap, tasks_to_sort))
           ELSE /\ explanation_log' = explanation_log \o prioritize_log(heap, tasks_to_sort)
                /\ ret' = Call("prioritize_tasks", lst, dflt, 0, prioritize_tasks(heap, tasks_to_sort), 0)
    /\ UNCHANGED <<heap, tasks, caller_tasks, same_list, available, schedule, edits>>

\* scheduler.optimize_schedule(lst)
OptimizeSchedule(lst) ==
    /\ ret.op = "none"
    /\ explanation_log' = explanation_log \o optimize_log
    /\ ret' = Call("optimize_schedule", lst, FALSE, 0, optimize_schedule(heap, lst), 0)
    /\ UNCHANGED <<heap, tasks, caller_tasks, same_list, available, schedule, edits>>

SortPool ==
    { Task("m5a", "walk", 10, 5, "morning", "", "once", FALSE, NoDate),
      Task("m5b", "walk", 20, 5, "morning", "", "once", FALSE, NoDate),
      Task("m2a", "walk", 10, 2, "morning", "", "once", FALSE, NoDate),
      Task("a5a", "walk", 10, 5, "afternoon", "", "once", FALSE, NoDate),
      Task("e2b", "walk", 20, 2, "evening", "", "once", FALSE, NoDate),
      Task("n5a", "walk", 10, 5, None, "", "once", FALSE, NoDate),
      Task("s2a", "walk", 10, 2, "", "", "once", TRUE, NoDate),
      Task("x5b", "walk", 20, 5, "noon", "", "once", FALSE, NoDate) }

InitSort == InitOf(SortPool, {FFromInt(4)})
NextSort ==
    \/ \E lst \in ArgLists : PrioritizeTasks(lst, FALSE)
    \/ PrioritizeTasks(<<>>, TRUE)
    \/ \E lst \in ArgLists : OptimizeSchedule(lst)
SpecSort == InitSort /\ [][NextSort]_vars

\* s is a rearrangement of t (both without repeated elements)
IsPermutation(s, t) ==
    /\ Len(s) = Len(t)
    /\ Range(s) = Range(t)
    /\ Cardinality(Range(s)) = Len(s)

\* the position of element o in list s
PosIn(s, o) == CHOOSE i \in 1..Len(s) : s[i] = o

PrioritizeCalled == ret.op = "prioritize_tasks"
PrioritizeInput == IF ret.dflt THEN tasks ELSE ret.arg

\* the ordering C9 describes, as a predicate on the state after the call
PrioritizeOrdered ==
    /\ IsPermutation(ret.result, PrioritizeInput)
    /\ \A i, j \in 1..Len(ret.result) :
          i < j =>
            LET a == heap[ret.result[i]]
                b == heap[ret.result[j]]
            IN  /\ a.priority >= b.priority
                /\ a.priority = b.priority => a.duration <= b.duration
                /\ (a.priority = b.priority /\ a.duration = b.duration) =>
                      PosIn(PrioritizeInput, ret.result[i]) < PosIn(PrioritizeInput, ret.result[j])

\* C9: prioritize_tasks returns a permutation of its input (the whole
\* collection when no argument is given) with higher priority first, equal
\* priorities in ascending duration, full ties in input order; the
\* scheduler's collection and the tasks themselves are left as they were.
C9_Prioritize ==
    [][PrioritizeCalled' => (PrioritizeOrdered' /\ tasks' = tasks /\ heap' = heap)]_vars

\* a call without argument on a collection that is out of order and holds a
\* completed task, two tasks tied in priority and duration, and a task of
\* lower priority
C9_Witness ==
    /\ PrioritizeCalled
    /\ ret.dflt
    /\ ret.result # PrioritizeInput
    /\ \E o \in Range(ret.result) : heap[o].completed
    /\ \E i, j, k \in 1..Len(ret.result) :
          /\ i < j /\ j < k
          /\ heap[ret.result[i]].priority = heap[ret.result[j]].priority
          /\ heap[ret.result[i]].duration = heap[ret.result[j]].duration
          /\ heap[ret.result[j]].priority > heap[ret.result[k]].priority

OptimizeCalled == ret.op = "optimize_schedule"

\* the rank C10 states
BucketRank(preferred_time) ==
    IF preferred_time = "morning" THEN 1
    ELSE IF preferred_time = "afternoon" THEN 2
    ELSE IF preferred_time = "evening" THEN 3
    ELSE 4

\* C10: optimize_schedule returns a permutation of its input in ascending
\* order of (bucket rank, -priority, duration), rank 1 morning, 2 afternoon,
\* 3 evening and 4 for an absent, empty or any other preferred time.
C10_Optimize ==
    OptimizeCalled =>
        /\ IsPermutation(ret.result, ret.arg)
        /\ \A i, j \in 1..Len(ret.result) :
              i < j =>
                LET a == heap[ret.result[i]]
                    b == heap[ret.result[j]]
                IN  /\ BucketRank(a.preferred_time) <= BucketRank(b.preferred_time)
                    /\ BucketRank(a.preferred_time) = BucketRank(b.preferred_time) =>
                          /\ a.priority >= b.priority
                          /\ a.priority = b.priority => a.duration <= b.duration

\* a call that moved tasks and returns all four ranks, the last rank held by
\* tasks with an absent, an empty or another preferred time
C10_Witness ==
    /\ OptimizeCalled
    /\ ret.result # ret.arg
    /\ {BucketRank(heap[o].preferred_time) : o \in Range(ret.result)} = {1, 2, 3, 4}
    /\ \E o \in Range(ret.result) : heap[o].preferred_time \in {None, "", "noon"}

(***************************************************************************)
(* Specification of detect_conflicts on its own                            *)
(***************************************************************************)
\* scheduler.detect_conflicts() and scheduler.detect_conflicts(lst)
DetectConflicts(lst, dflt) ==
    /\ ret.op = "none"
    /\ dflt => lst = <<>>
    /\ LET tasks_to_check == IF dflt THEN get_incomplete_tasks(heap, tasks) ELSE lst
       IN  ret' = IF detect_conflicts_raises(heap, tasks_to_check) # None
                  THEN Raised("detect_conflicts", lst, dflt, 0, detect_conflicts_raises(heap, tasks_to_check))
                  ELSE Call("detect_conflicts", lst, dflt, 0, detect_conflicts(heap, tasks_to_check), 0)
    /\ UNCHANGED <<heap, tasks, caller_tasks, same_list, available, explanation_log, schedule, edits>>

ConflictPool ==
    { Task("m60", "walk", 60, 3, "morning", "", "once", FALSE, NoDate),
      Task("m120", "walk", 120, 3, "morning", "", "once", FALSE, NoDate),
      Task("m121", "walk", 121, 3, "morning", "", "once", FALSE, NoDate),
      Task("m121c", "walk", 121, 3, "morning", "", "once", TRUE, NoDate),
      Task("e300", "walk", 300, 3, "evening", "", "once", FALSE, NoDate),
      Task("n60", "walk", 60, 3, None, "", "once", FALSE, NoDate),
      Task("n720", "walk", 720, 3, None, "", "once", FALSE, NoDate),
      Task("s721", "walk", 721, 3, "", "", "once", FALSE, NoDate),
      Task("x60", "walk", 60, 3, "noon", "", "once", FALSE, NoDate) }

InitConflict == InitOf(ConflictPool, {FFromInt(4)})
NextConflict ==
    \/ \E lst \in ArgLists : DetectConflicts(lst, FALSE)
    \/ DetectConflicts(<<>>, TRUE)
SpecConflict == InitConflict /\ [][NextConflict]_vars

ConflictsCalled == ret.op = "detect_conflicts"

\* the tasks a call checks according to C8
Checked == IF ret.dflt THEN SelectSeq(tasks, LAMBDA o : heap[o].completed = FALSE) ELSE ret.arg

\* the bucket of a task: its preferred time, "unscheduled" when absent or empty
BucketOf(t) == IF t.preferred_time \in {None, ""} THEN "unscheduled" ELSE t.preferred_time

\* the four buckets whose period length C6 states and the buckets the
\* checked tasks are in; the period length in minutes, 4 hours for morning,
\* afternoon and evening, 24 hours for unscheduled and any other label
NamedBuckets == {"morning", "afternoon", "evening", "unscheduled"}
Buckets == NamedBuckets \cup {BucketOf(heap[o]) : o \in Range(Checked)}
PeriodMinutes(p) == IF p \in {"morning", "afternoon", "evening"} THEN 4 * 60 ELSE 24 * 60

InBucket(lst, p) == SelectSeq(lst, LAMBDA o : BucketOf(heap[o]) = p)

RECURSIVE Minutes(_)
Minutes(lst) == IF lst = <<>> THEN 0 ELSE heap[Head(lst)].duration + Minutes(Tail(lst))

Warned(kind, p) == \E i \in 1..Len(ret.result) : ret.result[i].kind = kind /\ ret.result[i].text = p

Overflows(lst, p) == Len(InBucket(lst, p)) >= 2 /\ Minutes(InBucket(lst, p)) > PeriodMinutes(p)
Crowded(lst, p) == Len(InBucket(lst, p)) > 3 /\ Minutes(InBucket(lst, p)) <= PeriodMinutes(p) /\ p # "unscheduled"

\* C6: a bucket gets an overflow warning if and only if it holds at least 2
\* of the checked tasks and their minutes add up to strictly more than the
\* period length (240 for morning, afternoon, evening; 1440 for unscheduled).
C6_Overflow ==
    ConflictsCalled => \A p \in Buckets : Warned("overflow", p) <=> Overflows(Checked, p)

\* one call that warns of overflow in a 4-hour bucket (241 minutes in two
\* tasks) and in the unscheduled bucket (1441 minutes in two tasks)
C6_Witness ==
    /\ ConflictsCalled
    /\ Warned("overflow", "unscheduled")
    /\ \E p \in {"morning", "afternoon", "evening"} : Warned("overflow", p)

\* C7: a bucket gets a crowding warning if and only if it holds more than 3
\* of the checked tasks, their total does not exceed the period length and
\* it is not the unscheduled bucket; no bucket gets two warnings.
C7_Crowding ==
    ConflictsCalled =>
        /\ \A p \in Buckets : Warned("crowding", p) <=> Crowded(Checked, p)
        /\ \A i, j \in 1..Len(ret.result) : ret.result[i].text = ret.result[j].text => i = j

\* a call with four tasks in one bucket that fill it exactly and are warned
\* of as crowded
C7_Witness ==
    /\ ConflictsCalled
    /\ \E p \in {"morning", "afternoon", "evening"} :
          /\ Warned("crowding", p)
          /\ Minutes(InBucket(Checked, p)) = PeriodMinutes(p)

\* C8: without an argument the warnings are those of the incomplete tasks of
\* the collection, with an explicit list those of that list whatever the
\* completion status: every warning counts and names exactly the checked
\* tasks of its bucket, and a named bucket is warned of exactly when the
\* checked tasks in it overflow or crowd it.
C8_CheckedTasks ==
    ConflictsCalled =>
        /\ \A i \in 1..Len(ret.result) :
              LET w == ret.result[i]
                  members == SelectSeq(Checked, LAMBDA o : BucketOf(heap[o]) = w.text)
              IN  /\ w.n = Len(members)
                  /\ w.names = [k \in 1..Len(members) |-> heap[members[k]].name]
        /\ \A p \in Buckets :
              (\E i \in 1..Len(ret.result) : ret.result[i].text = p)
                 <=> (Overflows(Checked, p) \/ Crowded(Checked, p))

\* a call without argument that warns about a bucket in which the collection
\* also holds a completed task
C8_Witness ==
    /\ ConflictsCalled
    /\ ret.dflt
    /\ \E i \in 1..Len(ret.result), o \in Range(tasks) :
          /\ heap[o].completed
          /\ BucketOf(heap[o]) = ret.result[i].text

(***************************************************************************)
(* Specification of generate_plan over collections with completed tasks    *)
(***************************************************************************)
\* scheduler.generate_plan(include_completed=...)
GeneratePlan(include_completed) ==
    \E r \in {generate_plan(heap, tasks, available, include_completed)} :
        /\ explanation_log' = cleared_log(explanation_log) \o r.log
        /\ schedule' = IF r.raised # None THEN schedule
                       ELSE [r.schedule EXCEPT !.explanation = explanation_log']
        /\ ret' = IF r.raised # None
                  THEN Raised("generate_plan", <<>>, ~include_completed, 0, r.raised)
                  ELSE Call("generate_plan", <<>>, ~include_completed, 0, <<>>, 0)
        /\ UNCHANGED <<heap, tasks, caller_tasks, same_list, available, edits>>

\* schedule.is_feasible() on the schedule generate_plan returned; ret keeps
\* in dflt how that plan was asked for
IsFeasible ==
    /\ ret.op = "generate_plan"
    /\ ret' = Call("is_feasible", <<>>, ret.dflt, 0, <<is_feasible(schedule, available)>>, 0)
    /\ UNCHANGED <<heap, tasks, caller_tasks, same_list, available, explanation_log, schedule, edits>>

PlanPool ==
    { Task("walk", "walk", 30, 5, "morning", "", "daily", FALSE, NoDate),
      Task("feed", "feeding", 60, 3, None, "", "daily", FALSE, NoDate),
      Task("groom", "grooming", 90, 4, "evening", "", "weekly", TRUE, NoDate),
      Task("meds", "medication", 30, 5, "", "", "once", TRUE, NoDate),
      Task("play", "enrichment", 120, 1, "afternoon", "", "once", FALSE, NoDate),
      Task("train", "enrichment", 60, 5, "morning", "", "once", FALSE, NoDate) }

PlanMinutes == {0, 120, 240}

InitPlan == InitOf(PlanPool, {FDivInt(m, 60) : m \in PlanMinutes})
NextPlan ==
    \/ \E include_completed \in BOOLEAN : GeneratePlan(include_completed)
    \/ IsFeasible
SpecPlan == InitPlan /\ [][NextPlan]_vars

PlanCalled == ret.op = "generate_plan"

\* the tasks of the returned schedule
Scheduled == [i \in 1..Len(schedule.scheduled_tasks) |-> schedule.scheduled_tasks[i][2]]

\* how many of the tasks of lst are called name
CountNamed(lst, name) == Cardinality({i \in 1..Len(lst) : heap[lst[i]].name = name})

\* how many include/skip decisions the explanation reports for name
CountDecided(name) ==
    Cardinality({i \in 1..Len(schedule.explanation) :
                    /\ schedule.explanation[i].kind \in {"included", "skipped"}
                    /\ schedule.explanation[i].text = name})

\* the working set C2 states for the call that has just returned
WorkingSet == IF ret.dflt THEN SelectSeq(tasks, LAMBDA o : heap[o].completed = FALSE) ELSE tasks

\* C2: with default arguments generate_plan schedules no completed task and
\* decides (includes or skips) exactly the incomplete tasks of the
\* collection; with include_completed = true it decides every task of the
\* collection.
C2_WorkingSet ==
    PlanCalled =>
        /\ Range(Scheduled) \subseteq Range(WorkingSet)
        /\ \A o \in Range(tasks) : CountDecided(heap[o].name) = CountNamed(WorkingSet, heap[o].name)
        /\ \E i \in 1..Len(schedule.explanation) :
              schedule.explanation[i].kind = "to_schedule" /\ schedule.explanation[i].n = Len(WorkingSet)

\* a default call on a collection that holds a completed task short enough
\* to fit the budget, and that schedules some other task
C2_Witness ==
    /\ PlanCalled
    /\ ret.dflt
    /\ Scheduled # <<>>
    /\ \E o \in Range(tasks) : heap[o].completed /\ FLe(get_duration_hours(heap[o]), available)

(***************************************************************************)
(* Specification of task completion and recurrence                         *)
(***************************************************************************)
\* a plausible slip: a task that is already completed is left alone, no new
\* instance made for it
CompleteTask_skips_completed(o) ==
    /\ o \in 1..Len(heap)
    /\ heap[o].frequency \in Recurring => Len(heap) < MaxHeap
    /\ LET marked == [heap EXCEPT ![o].completed = TRUE]
       IN  IF heap[o].frequency \in Recurring /\ ~heap[o].completed
           THEN /\ heap' = Append(marked, next_task(marked[o]))
                /\ tasks' = Append(tasks, Len(heap) + 1)
                /\ caller_tasks' = IF same_list THEN tasks' ELSE caller_tasks
                /\ ret' = Call("complete_task", <<>>, FALSE, o, <<>>, Len(heap) + 1)
           ELSE /\ heap' = marked
                /\ tasks' = tasks
                /\ caller_tasks' = caller_tasks
                /\ ret' = Call("complete_task", <<>>, FALSE, o, <<>>, 0)
    /\ UNCHANGED <<same_list, available, explanation_log, schedule, edits>>

\* scheduler.complete_task(task) for a Task object the caller holds
CompleteTask(o) ==
    /\ o \in 1..Len(heap)
    /\ heap[o].frequency \in Recurring => Len(heap) < MaxHeap
    /\ LET marked == [heap EXCEPT ![o].completed = TRUE]
       IN  IF heap[o].frequency \in Recurring
           THEN /\ heap' = Append(marked, next_task(marked[o]))
                /\ tasks' = Append(tasks, Len(heap) + 1)
                /\ caller_tasks' = IF same_list THEN tasks' ELSE caller_tasks
                /\ ret' = Call("complete_task", <<>>, FALSE, o, <<>>, Len(heap) + 1)
           ELSE /\ heap' = marked
                /\ tasks' = tasks
                /\ caller_tasks' = caller_tasks
                /\ ret' = Call("complete_task", <<>>, FALSE, o, <<>>, 0)
    /\ UNCHANGED <<same_list, available, explanation_log, schedule, edits>>

\* task.mark_incomplete(), the "Undo" of the task list
MarkIncomplete(o) ==
    /\ o \in 1..Len(heap)
    /\ heap' = [heap EXCEPT ![o].completed = FALSE]
    /\ ret' = Call("mark_incomplete", <<>>, FALSE, o, <<>>, 0)
    /\ UNCHANGED <<tasks, caller_tasks, same_list, available, explanation_log, schedule, edits>>

CompletePool ==
    { Task("walk", "walk", 30, 5, "morning", "twice round the block", "daily", FALSE, NoDate),
      Task("bath", "grooming", 60, 2, None, "", "weekly", FALSE, 2000),
      Task("vet", "medical", 90, 4, "evening", "bring the card", "monthly", TRUE, 2000),
      Task("toy", "enrichment", 15, 1, "", "new toy", "once", FALSE, NoDate) }

InitComplete == InitOf(CompletePool, {FFromInt(4)})
NextComplete ==
    \/ \E o \in 1..MaxHeap : CompleteTask(o)
    \/ \E o \in 1..MaxHeap : MarkIncomplete(o)
SpecComplete == InitComplete /\ [][NextComplete]_vars

CompleteCalled == ret.op = "complete_task"

\* the days C3 states for each recurring frequency
DaysLater(frequency) ==
    IF frequency = "daily" THEN 1 ELSE IF frequency = "weekly" THEN 7 ELSE 30

C4_NewInstance ==
    [][CompleteCalled' =>
          /\ \A x \in 1..Len(heap) :
                heap'[x] = IF x = ret'.task THEN [heap[x] EXCEPT !.completed = TRUE] ELSE heap[x]
          /\ SubSeq(tasks', 1, Len(tasks)) = tasks
          /\ ret'.new = 0 => tasks' = tasks
          /\ ret'.new # 0 =>
                /\ ret'.new \notin 1..Len(heap)
                /\ tasks' = Append(tasks, ret'.new)
                /\ LET old == heap[ret'.task]
                       new == heap'[ret'.new]
                   IN  /\ new.name = old.name
                       /\ new.category = old.category
                       /\ new.duration = old.duration
                       /\ new.priority = old.priority
                       /\ new.preferred_time = old.preferred_time
                       /\ new.notes = old.notes
                       /\ new.frequency = old.frequency
                       /\ new.completed = FALSE]_vars

\* the state after completing a recurring task that has notes and a
\* preferred time: the new task is last in the collection
C4_Witness ==
    /\ CompleteCalled
    /\ ret.new # 0
    /\ heap[ret.task].notes # ""
    /\ heap[ret.task].preferred_time # None
    /\ tasks[Len(tasks)] = ret.new
    /\ ret.task \in Range(tasks)

(***************************************************************************)
(* Specification of a DailySchedule edited by its caller                   *)
(***************************************************************************)
\* schedule.add_task(task) and schedule.add_task(task, time)
AddTask(o, time) ==
    /\ o \in 1..Len(heap)
    /\ Len(schedule.scheduled_tasks) < MaxScheduled
    /\ edits < MaxEdits
    /\ edits' = edits + 1
    /\ schedule' = add_task(heap, schedule, o, time)
    /\ ret' = Call("add_task", <<>>, time = None, o, <<TRUE>>, 0)
    /\ UNCHANGED <<heap, tasks, caller_tasks, same_list, available, explanation_log>>

\* schedule.remove_task(task)
RemoveTask(o) ==
    /\ o \in 1..Len(heap)
    /\ edits < MaxEdits
    /\ edits' = edits + 1
    /\ schedule' = remove_task(heap, schedule, o)
    /\ ret' = Call("remove_task", <<>>, FALSE, o, <<remove_index(heap, schedule.scheduled_tasks, o, 1) # 0>>, 0)
    /\ UNCHANGED <<heap, tasks, caller_tasks, same_list, available, explanation_log>>

\* the Task objects of the caller: the second equals the first under
\* Task.__eq__ and is another object in another completion state
ScheduleTasks ==
    << Task("feed", "feeding", 1, 3, None, "", "once", FALSE, NoDate),
       Task("feed", "feeding", 1, 3, "evening", "", "once", TRUE, NoDate),
       Task("brush", "grooming", 2, 3, "morning", "", "once", FALSE, NoDate),
       Task("walk", "walk", 60, 5, "", "", "once", FALSE, NoDate) >>

ScheduleLabels == {None, "9:00 AM"}

\* DailySchedule(date, owner, pet) for an owner with 0 or with 1 hour
InitSchedule ==
    /\ heap = ScheduleTasks
    /\ tasks = <<>>
    /\ caller_tasks = <<>>
    /\ same_list = FALSE
    /\ available \in {FFromInt(0), FFromInt(1)}
    /\ explanation_log = <<>>
    /\ schedule = DailySchedule
    /\ edits = 0
    /\ ret = NoCall
NextSchedule ==
    \/ \E o \in 1..MaxHeap, time \in ScheduleLabels : AddTask(o, time)
    \/ \E o \in 1..MaxHeap : RemoveTask(o)
SpecSchedule == InitSchedule /\ [][NextSchedule]_vars

\* the hours of the scheduled tasks added up in list order
RECURSIVE HoursInOrder(_)
HoursInOrder(entries) ==
    IF entries = <<>> THEN FFromInt(0)
    ELSE FAdd(HoursInOrder(SubSeq(entries, 1, Len(entries) - 1)),
              get_duration_hours(heap[entries[Len(entries)][2]]))

\* the minutes of the scheduled tasks
RECURSIVE MinutesOf(_)
MinutesOf(entries) ==
    IF entries = <<>> THEN 0 ELSE heap[Head(entries)[2]].duration + MinutesOf(Tail(entries))

\* C5: after any sequence of add_task and remove_task, total_duration is the
\* sum of the durations of the scheduled tasks (their hours added up, or
\* their minutes added up and taken as hours).
C5_TotalIsSum ==
    \/ schedule.total_duration = HoursInOrder(schedule.scheduled_tasks)
    \/ schedule.total_duration = FDivInt(MinutesOf(schedule.scheduled_tasks), 60)

(***************************************************************************)
(* Specification of Task construction and set_priority                     *)
(***************************************************************************)
\* Task("walk", "walk", duration, priority) and, when the caller gives it,
\* completed=completed
NewTask(duration, priority, given, completed) ==
    /\ Len(heap) < MaxNew
    /\ given \/ ~completed
    /\ LET r == Task_init("walk", "walk", duration, priority, None, "", "once",
                          completed, NoDate)
           passed == <<duration, priority, IF completed THEN 1 ELSE 0>>
       IN  IF r.raised # None
           THEN /\ heap' = heap
                /\ ret' = Raised("Task", passed, ~given, 0, r.raised)
           ELSE /\ heap' = Append(heap, r.value[1])
                /\ ret' = Call("Task", passed, ~given, 0, <<>>, Len(heap) + 1)
    /\ UNCHANGED <<tasks, caller_tasks, same_list, available, explanation_log, schedule, edits>>

\* task.set_priority(priority) on a Task object the caller holds
SetPriority(o, priority) ==
    /\ o \in 1..Len(heap)
    /\ LET r == set_priority(heap[o], priority)
       IN  /\ heap' = [heap EXCEPT ![o] = r.value[1]]
           /\ ret' = IF r.raised # None
                     THEN Raised("set_priority", <<priority>>, FALSE, o, r.raised)
                     ELSE Call("set_priority", <<priority>>, FALSE, o, <<>>, 0)
    /\ UNCHANGED <<tasks, caller_tasks, same_list, available, explanation_log, schedule, edits>>

\* the durations and priorities passed, as twice their value:
\* -1, 0, 0.5 and 30 minutes; 0, 0.5, 1, 2.5, 5, 5.5 and 6
TaskDurations == {-2, 0, 1, 60}
TaskPriorities == {0, 1, 2, 5, 10, 11, 12}

InitTask ==
    /\ heap = <<>>
    /\ tasks = <<>>
    /\ caller_tasks = <<>>
    /\ same_list = FALSE
    /\ available = FFromInt(4)
    /\ explanation_log = <<>>
    /\ schedule = DailySchedule
    /\ edits = 0
    /\ ret = NoCall
NextTask ==
    \/ \E duration \in TaskDurations, priority \in TaskPriorities,
          given \in BOOLEAN, completed \in BOOLEAN :
          NewTask(duration, priority, given, completed)
    \/ \E o \in 1..MaxHeap, priority \in TaskPriorities : SetPriority(o, priority)
SpecTask == InitTask /\ [][NextTask]_vars

TaskCalled == ret.op = "Task"

\* the inputs C11 names as invalid, for the call that has just returned
InvalidInput == ret.arg[1] <= 0 \/ ret.arg[2] < 2 * 1 \/ ret.arg[2] > 2 * 5

\* C11: Task construction fails with a validation error if and only if
\* duration <= 0 or priority is outside [1,5]; every other input constructs a
\* task, whose completed flag is false unless the caller passes one.
C11_Validation ==
    TaskCalled =>
        /\ (ret.raised = "ValueError") <=> InvalidInput
        /\ ret.raised \in {"ValueError", None}
        /\ InvalidInput => ret.new = 0
        /\ ~InvalidInput =>
              /\ ret.new = Len(heap)
              /\ ret.new # 0
              /\ heap[ret.new].completed = (IF ret.dflt THEN FALSE ELSE ret.arg[3] = 1)

\* a second task constructed from a duration of 0.5 and a priority of 2.5,
\* with completed passed as true
C11_Witness ==
    /\ TaskCalled
    /\ ret.arg = <<1, 5, 1>>
    /\ ret.new = 2
    /\ heap[2].completed
    /\ ~heap[1].completed

SetPriorityCalled == ret.op = "set_priority"

\* the task as set_priority may leave it: no field but the priority differs
OnlyPriorityChanged(old, new) == new = [old EXCEPT !.priority = new.priority]

\* C12 as stated: for p outside [1,5] set_priority fails and changes no
\* field; for p in [1,5] the priority becomes p and no other field changes.
C12_SetsPriorityToP ==
    [][SetPriorityCalled' =>
          IF ret'.arg[1] < 2 * 1 \/ ret'.arg[1] > 2 * 5
          THEN ret'.raised = "ValueError" /\ heap' = heap
          ELSE /\ ret'.raised = None
               /\ 2 * heap'[ret'.task].priority = ret'.arg[1]
               /\ \A x \in 1..Len(heap) :
                     IF x = ret'.task THEN OnlyPriorityChanged(heap[x], heap'[x])
                     ELSE heap'[x] = heap[x]
               /\ Len(heap') = Len(heap)]_vars

\* the whole part of p, for p >= 0 given as twice its value
WholePart(p) == (p - (p % 2)) \div 2

\* C12 amended: for p outside [1,5] set_priority fails and changes no field;
\* for p in [1,5] the priority becomes the whole part of p (p itself when p
\* is a whole number) and no other field changes.
C12_SetPriority ==
    [][SetPriorityCalled' =>
          IF ret'.arg[1] < 2 * 1 \/ ret'.arg[1] > 2 * 5
          THEN ret'.raised = "ValueError" /\ heap' = heap
          ELSE /\ ret'.raised = None
               /\ heap'[ret'.task].priority = WholePart(ret'.arg[1])
               /\ \A x \in 1..Len(heap) :
                     IF x = ret'.task THEN OnlyPriorityChanged(heap[x], heap'[x])
                     ELSE heap'[x] = heap[x]
               /\ Len(heap') = Len(heap)]_vars

\* set_priority(2.5) has just returned on the first of two tasks, a completed
\* one, and the second still has priority 5
C12_Witness ==
    /\ SetPriorityCalled
    /\ ret.arg = <<5>>
    /\ ret.task = 1
    /\ Len(heap) = 2
    /\ heap[1].priority = 2
    /\ heap[1].completed
    /\ heap[2].priority = 5

(***************************************************************************)
(* Specification of the comparisons of Task objects                        *)
(***************************************************************************)
\* the pairs of Task objects the caller holds
Pairs == (1..Len(heap)) \X (1..Len(heap))

\* a < b evaluated for every pair of the caller's tasks
LessThan ==
    /\ ret.op = "none"
    /\ ret' = Call("__lt__", <<>>, FALSE, 0, [p \in Pairs |-> Task_lt(heap[p[1]], heap[p[2]])], 0)
    /\ UNCHANGED <<heap, tasks, caller_tasks, same_list, available, explanation_log, schedule, edits>>

\* a == b evaluated for every pair of the caller's tasks
Equals ==
    /\ ret.op = "none"
    /\ ret' = Call("__eq__", <<>>, FALSE, 0, [p \in Pairs |-> Task_eq(heap[p[1]], heap[p[2]])], 0)
    /\ UNCHANGED <<heap, tasks, caller_tasks, same_list, available, explanation_log, schedule, edits>>

\* the second is the first completed, with another due date, preferred time
\* and notes; each of the others differs from the first in one field
ComparePool ==
    { Task("walk", "walk", 30, 3, None, "", "once", FALSE, NoDate),
      Task("walk", "walk", 30, 3, "evening", "late", "once", TRUE, 2000),
      Task("run", "walk", 30, 3, None, "", "once", FALSE, NoDate),
      Task("walk", "play", 30, 3, None, "", "once", FALSE, NoDate),
      Task("walk", "walk", 60, 3, None, "", "once", FALSE, NoDate),
      Task("walk", "walk", 30, 5, None, "", "once", FALSE, NoDate),
      Task("walk", "walk", 30, 3, None, "", "daily", FALSE, NoDate) }

InitCompare == InitOf(ComparePool, {FFromInt(4)})
NextCompare == LessThan \/ Equals
SpecCompare == InitCompare /\ [][NextCompare]_vars

LessThanCalled == ret.op = "__lt__"

\* what a < b returned
Lt(a, b) == ret.result[<<a, b>>]

\* same priority and same duration
EqualRank(a, b) ==
    heap[a].priority = heap[b].priority /\ heap[a].duration = heap[b].duration

\* a comes first by priority descending, then duration ascending
RanksFirst(a, b) ==
    \/ heap[a].priority > heap[b].priority
    \/ heap[a].priority = heap[b].priority /\ heap[a].duration < heap[b].duration

\* neither sorts before the other
Unordered(a, b) == ~Lt(a, b) /\ ~Lt(b, a)

\* C13: '<' on tasks is a strict weak ordering consistent with (priority
\* descending, duration ascending): exactly one of a<b, b<a, equal rank holds
\* for any two tasks, '<' is irreflexive and transitive, and equal rank is
\* transitive.
C13_StrictWeakOrder ==
    LessThanCalled =>
        \A a, b, c \in 1..Len(heap) :
            /\ Lt(a, b) <=> RanksFirst(a, b)
            /\ Cardinality({k \in 1..3 :
                   \/ k = 1 /\ Lt(a, b)
                   \/ k = 2 /\ Lt(b, a)
                   \/ k = 3 /\ EqualRank(a, b)}) = 1
            /\ ~Lt(a, a)
            /\ (Lt(a, b) /\ Lt(b, c)) => Lt(a, c)
            /\ (Unordered(a, b) /\ Unordered(b, c)) => Unordered(a, c)

\* three tasks in a chain a < b < c, the first step by duration and the second
\* by priority, and a fourth of equal rank with one of them that is not equal
\* to it
C13_Witness ==
    /\ LessThanCalled
    /\ Len(heap) = 4
    /\ Lt(1, 2) /\ Lt(3, 1) /\ Lt(3, 2)
    /\ heap[1].priority = heap[2].priority
    /\ heap[3].priority > heap[1].priority
    /\ Unordered(1, 4) /\ heap[1].name # heap[4].name

EqualsCalled == ret.op = "__eq__"

\* the fields C14 names
SameFive(a, b) ==
    /\ heap[a].name = heap[b].name
    /\ heap[a].category = heap[b].category
    /\ heap[a].duration = heap[b].duration
    /\ heap[a].priority = heap[b].priority
    /\ heap[a].frequency = heap[b].frequency

\* C14: two tasks compare equal exactly when they agree on name, category,
\* duration, priority and frequency, whatever their completed flag and due
\* date.
C14_Equality ==
    EqualsCalled =>
        \A a, b \in 1..Len(heap) :
            /\ SameFive(a, b) => ret.result[<<a, b>>]
            /\ ~SameFive(a, b) => ~ret.result[<<a, b>>]

\* a task equal to one that is completed and has another due date, and
\* unequal to one that differs from it in the frequency only
C14_Witness ==
    /\ EqualsCalled
    /\ Len(heap) >= 3
    /\ ret.result[<<1, 2>>] /\ ret.result[<<2, 1>>]
    /\ heap[1].completed # heap[2].completed
    /\ heap[1].due_date # heap[2].due_date
    /\ ~ret.result[<<1, 3>>]
    /\ heap[1].frequency # heap[3].frequency
    /\ [heap[3] EXCEPT !.frequency = "once", !.due_date = NoDate] = heap[1]

\* C15: generate_plan on an empty working set (an empty collection, or one
\* whose tasks are all completed with include_completed left false) returns a
\* schedule with no scheduled task and total duration 0, and is_feasible() is
\* true on it for every owner, one with 0 available hours included.
C15_EmptyPlan ==
    (ret.op \in {"generate_plan", "is_feasible"} /\ WorkingSet = <<>>) =>
        /\ schedule.scheduled_tasks = <<>>
        /\ schedule.total_duration = FFromInt(0)
        /\ ret.op = "is_feasible" => ret.result = <<TRUE>>

\* is_feasible() has answered on the plan of an owner with 0 hours whose
\* tasks, two or more, are all completed
C15_Witness ==
    /\ ret.op = "is_feasible"
    /\ ret.dflt
    /\ Len(tasks) >= 2
    /\ \A o \in Range(tasks) : heap[o].completed
    /\ available = FFromInt(0)
    /\ ret.result = <<TRUE>>

(***************************************************************************)
(* Specification of the scheduling calls on collections with anomalies:    *)
(* buckets that overflow, crowded buckets, tasks that do not fit, labels   *)
(* outside the period table                                                *)
(***************************************************************************)
AnomalyPool ==
    { Task("m150", "walk", 150, 5, "morning", "", "once", FALSE, NoDate),
      Task("m10", "feeding", 10, 1, "morning", "", "daily", FALSE, NoDate),
      Task("x60", "play", 60, 4, "noon", "", "once", FALSE, NoDate),
      Task("big", "trip", 1500, 2, None, "", "once", FALSE, NoDate) }

\* the owner's available hours
AnomalyHours == {6}

InitAnomaly == InitOf(AnomalyPool, {FFromInt(hours) : hours \in AnomalyHours})
NextAnomaly ==
    \/ \E include_completed \in BOOLEAN : GeneratePlan(include_completed)
    \/ \E lst \in ArgLists, dflt \in BOOLEAN : DetectConflicts(lst, dflt)
SpecAnomaly == InitAnomaly /\ [][NextAnomaly]_vars

\* the explanation of the schedule reports a message of this kind
Explains(kind) ==
    \E i \in 1..Len(schedule.explanation) : schedule.explanation[i].kind = kind

\* C16: generate_plan always returns a DailySchedule and detect_conflicts
\* always returns a list of warnings: neither ends with an exception, whatever
\* buckets overflow or are crowded and whatever tasks do not fit.
C16_AlwaysReturns ==
    /\ PlanCalled =>
          /\ ret.raised = None
          /\ schedule.explanation = explanation_log
          /\ Explains("generating")
          /\ \A i \in 1..Len(schedule.scheduled_tasks) :
                schedule.scheduled_tasks[i][2] \in Range(tasks)
    /\ ConflictsCalled =>
          /\ ret.raised = None
          /\ \A i \in 1..Len(ret.result) : ret.result[i].kind \in {"overflow", "crowding"}

\* generate_plan has returned a schedule for which it skipped a task that
\* does not fit and reported an overflowing morning
C16_Witness ==
    /\ PlanCalled
    /\ ret.raised = None
    /\ Explains("skipped")
    /\ Explains("overflow")
    /\ Len(schedule.scheduled_tasks) >= 2

RemoveCalled == ret.op = "remove_task"

\* the positions of the entries whose task equals task o on the five fields
\* of Task equality
Matches(entries, o) == {i \in 1..Len(entries) : SameFive(entries[i][2], o)}

\* the least position of a non-empty set of positions
Lowest(S) == CHOOSE i \in S : \A j \in S : i <= j

\* entries without its position i
Without(entries, i) == SubSeq(entries, 1, i - 1) \o SubSeq(entries, i + 1, Len(entries))

\* C17: remove_task(task) removes exactly one entry, the lowest-index entry
\* whose task equals the argument under Task equality, and returns True,
\* the other entries keeping their order; when no entry is equal it returns
\* False and leaves scheduled_tasks and total_duration unchanged.
C17_RemoveTask ==
    [][RemoveCalled' =>
          LET entries == schedule.scheduled_tasks
              found   == Matches(entries, ret'.task)
          IN  IF found = {}
              THEN /\ ret'.result = <<FALSE>>
                   /\ schedule'.scheduled_tasks = entries
                   /\ schedule'.total_duration = schedule.total_duration
              ELSE /\ ret'.result = <<TRUE>>
                   /\ schedule'.scheduled_tasks = Without(entries, Lowest(found))]_vars

\* remove_task has returned True for the completed instance of "feed" as the
\* fourth call on the schedule; the two entries left are "brush" and then the
\* other, incomplete instance of "feed"
C17_Witness ==
    /\ RemoveCalled
    /\ ret.task = 2
    /\ heap[2].completed
    /\ ret.result = <<TRUE>>
    /\ edits = 4
    /\ Len(schedule.scheduled_tasks) = 2
    /\ schedule.scheduled_tasks[1][2] = 3
    /\ schedule.scheduled_tasks[2][2] = 1

AddCalled == ret.op = "add_task"

\* the label C18 states for the call that has returned
LabelOf(o, time) ==
    IF time # None THEN time
    ELSE IF heap[o].preferred_time \in {None, ""} THEN "Unscheduled"
    ELSE heap[o].preferred_time

\* C18: add_task always returns True, appends exactly one (label, task) entry
\* at the end of scheduled_tasks and adds the task's hours to the total, also
\* for a task already scheduled and above the owner's available hours; the
\* label is the one given, else the task's preferred_time, else "Unscheduled".
C18_AddTask ==
    [][AddCalled' =>
          /\ ret'.result = <<TRUE>>
          /\ Len(schedule'.scheduled_tasks) = Len(schedule.scheduled_tasks) + 1
          /\ SubSeq(schedule'.scheduled_tasks, 1, Len(schedule.scheduled_tasks)) = schedule.scheduled_tasks
          /\ \E time \in ScheduleLabels :
                /\ ret'.dflt <=> time = None
                /\ schedule'.scheduled_tasks[Len(schedule'.scheduled_tasks)]
                      = <<LabelOf(ret'.task, time), ret'.task>>
          /\ schedule'.total_duration
                = FAdd(schedule.total_duration, FDivInt(heap[ret'.task].duration, 60))]_vars

\* add_task without a label has added the 60-minute task, whose preferred
\* time is empty, a second time: the total is above the owner's hours
C18_Witness ==
    /\ AddCalled
    /\ ret.dflt
    /\ heap[ret.task].preferred_time = ""
    /\ Len(schedule.scheduled_tasks) >= 2
    /\ schedule.scheduled_tasks[Len(schedule.scheduled_tasks)] = <<"Unscheduled", ret.task>>
    /\ schedule.scheduled_tasks[1][2] = ret.task
    /\ FLt(available, schedule.total_duration)
    /\ ret.result = <<TRUE>>

(***************************************************************************)
(* Specification of a scheduler and the list its caller passed: the caller *)
(* holds up to MaxTasks tasks and passes a list of some of them, possibly  *)
(* of none                                                                 *)
(***************************************************************************)
SharedPool ==
    { Task("walk", "walk", 30, 5, "morning", "", "daily", FALSE, NoDate),
      Task("toy", "enrichment", 15, 1, None, "", "once", FALSE, NoDate) }

InitShared ==
    /\ \E n \in 0..MaxTasks : heap \in [1..n -> SharedPool]
    /\ caller_tasks \in ArgLists
    /\ tasks = caller_tasks
    /\ same_list = Scheduler_keeps(caller_tasks)
    /\ available = FFromInt(4)
    /\ explanation_log = <<>>
    /\ schedule = DailySchedule
    /\ edits = 0
    /\ ret = NoCall
NextShared == \E o \in 1..MaxHeap : CompleteTask(o)
SpecShared == InitShared /\ [][NextShared]_vars

\* C19: whatever list the caller passed to the constructor, of any length,
\* a task appended by complete_task is in the caller's own list when the call
\* has returned, and that list is the collection the scheduler works on.
C19_LiveList ==
    (CompleteCalled /\ ret.new # 0) =>
        /\ ret.new \in Range(caller_tasks)
        /\ caller_tasks = tasks

(***************************************************************************)
(* Specification of the explanation log: generate_plan called on a         *)
(* scheduler that has logged messages before, in a standalone              *)
(* prioritize_tasks, fit_to_time_constraint or optimize_schedule call or   *)
(* in an earlier generate_plan                                             *)
(***************************************************************************)
\* scheduler.generate_plan(...) when earlier calls have left messages
GeneratePlanAgain(include_completed) ==
    /\ explanation_log # <<>>
    /\ GeneratePlan(include_completed)

LogPool ==
    { Task("walk", "walk", 30, 5, "morning", "", "daily", FALSE, NoDate),
      Task("play", "enrichment", 120, 1, "afternoon", "", "once", FALSE, NoDate),
      Task("meds", "medication", 30, 4, None, "", "once", TRUE, NoDate) }

InitLog == InitOf(LogPool, {FFromInt(2)})
NextLog ==
    \/ \E lst \in ArgLists, dflt \in BOOLEAN : PrioritizeTasks(lst, dflt)
    \/ \E lst \in ArgLists : FitToTimeConstraint(lst)
    \/ \E lst \in ArgLists : OptimizeSchedule(lst)
    \/ \E include_completed \in BOOLEAN : GeneratePlanAgain(include_completed)
SpecLog == InitLog /\ [][NextLog]_vars

\* how many messages of this kind a log holds
CountKind(log, kind) == Cardinality({i \in 1..Len(log) : log[i].kind = kind})

\* the explanation holds what one generate_plan call logs and no more: the
\* context lines first and once, one message of each step, one decision for
\* each task of the working set
OneCallOnly(e) ==
    /\ Len(e) >= 5
    /\ e[1].kind = "generating" /\ e[2].kind = "owner_hours"
    /\ e[3].kind = "total" /\ e[3].n = Len(tasks)
    /\ e[5].kind = "to_schedule" /\ e[5].n = Len(WorkingSet)
    /\ \A kind \in {"generating", "owner_hours", "total", "to_schedule",
                    "sorted", "selected", "optimized"} : CountKind(e, kind) = 1
    /\ CountKind(e, "highest") <= 1
    /\ CountKind(e, "included") + CountKind(e, "skipped") = Len(WorkingSet)
    /\ CountKind(e, "included") = Len(schedule.scheduled_tasks)
    /\ CountKind(e, "no_conflicts") + CountKind(e, "conflicts_detected") = 1

\* C20: the explanation log is reset at the start of every generate_plan
\* call: the explanation of the returned schedule is the log of that call
\* alone, beginning with the owner/pet context lines, with nothing from an
\* earlier generate_plan or standalone call.
C20_LogReset ==
    PlanCalled =>
        /\ schedule.explanation = explanation_log
        /\ OneCallOnly(schedule.explanation)

\* generate_plan has returned, on a scheduler that had logged before, a plan
\* of all three tasks of which one is skipped
C20_Witness ==
    /\ PlanCalled
    /\ ~ret.dflt
    /\ Len(tasks) = 3
    /\ CountKind(schedule.explanation, "skipped") = 1
    /\ CountKind(schedule.explanation, "included") = 2

\* the list the three steps give for the working set of the call that has
\* returned: prioritize, then fit to the owner's hours, then optimize
Pipeline ==
    optimize_schedule(heap, fit_to_time_constraint(heap, available, prioritize_tasks(heap, WorkingSet)))

\* C21: the schedule generate_plan returns is a fresh DailySchedule: its
\* scheduled_tasks are exactly the tasks that prioritize -> fit -> optimize
\* give for the working set, in the optimized order, each labelled with its
\* own preferred_time, or "Unscheduled" when that is absent or empty, and
\* nothing of an earlier schedule is in it.
C21_PlanEntries ==
    PlanCalled =>
        /\ schedule.scheduled_tasks =
              [i \in 1..Len(Pipeline) |-> <<LabelOf(Pipeline[i], None), Pipeline[i]>>]
        /\ schedule.total_duration = HoursInOrder(schedule.scheduled_tasks)

\* generate_plan(include_completed=True) has returned a plan whose order is
\* neither the collection's nor the priority order, with a task skipped, a
\* task labelled by its preferred time and tasks labelled "Unscheduled" for
\* an absent and for an empty preferred time
C21_Witness ==
    /\ PlanCalled
    /\ ~ret.dflt
    /\ Explains("skipped")
    /\ Scheduled # fit_to_time_constraint(heap, available, prioritize_tasks(heap, WorkingSet))
    /\ Scheduled # SelectSeq(tasks, LAMBDA o : o \in Range(Scheduled))
    /\ \E i, j, k \in 1..Len(schedule.scheduled_tasks) :
          /\ schedule.scheduled_tasks[i][1] = "morning"
          /\ schedule.scheduled_tasks[j][1] = "Unscheduled"
          /\ heap[schedule.scheduled_tasks[j][2]].preferred_time = None
          /\ schedule.scheduled_tasks[k][1] = "Unscheduled"
          /\ heap[schedule.scheduled_tasks[k][2]].preferred_time = ""

\* two different tasks of the same time bucket and the same priority
TiedInBucket(a, b) ==
    /\ a # b
    /\ BucketRank(heap[a].preferred_time) = BucketRank(heap[b].preferred_time)
    /\ heap[a].priority = heap[b].priority

\* a and b, both in the lists s and t, are in one relative order in s and in
\* the opposite one in t
Reversed(s, t, a, b) == (PosIn(s, a) < PosIn(s, b)) # (PosIn(t, a) < PosIn(t, b))

\* the working sets that can be made of the tasks at hand: some of them, in
\* any order
WorkingSets ==
    {ws \in UNION {[1..k -> 1..Len(heap)] : k \in 0..Len(heap)} :
        \A i, j \in 1..Len(ws) : ws[i] = ws[j] => i = j}

\* the output of step 3 and of step 5 of a generate_plan run on working set ws
Step3(ws) == prioritize_tasks(heap, ws)
Step5(ws) == optimize_schedule(heap, fit_to_time_constraint(heap, available, Step3(ws)))

\* C22 as stated: priority ties inside a time bucket are broken differently
\* before and after optimization, that is, there are working sets for which
\* two tasks of the same bucket and priority are in one relative order in
\* the prioritize_tasks output and in the opposite order in the
\* optimize_schedule output of the same run; here for a scheduler whose
\* collection holds such a pair, the working sets being made of its tasks.
C22_TiesReordered ==
    (PlanCalled /\ \E a, b \in Range(tasks) : TiedInBucket(a, b)) =>
        \E ws \in WorkingSets :
            \E a, b \in Range(Step5(ws)) :
                TiedInBucket(a, b) /\ Reversed(Step3(ws), Step5(ws), a, b)

\* C22 amended: optimize_schedule preserves the step-3 order of priority
\* ties inside a time bucket: in every generate_plan run, two scheduled tasks
\* of the same bucket and priority are in the same relative order in the
\* prioritize_tasks output and in the optimize_schedule output.
C22_TiesPreserved ==
    PlanCalled =>
        \A a, b \in Range(Scheduled) :
            TiedInBucket(a, b) => ~Reversed(Step3(WorkingSet), Scheduled, a, b)

\* a plan in which optimization moved a task, holding two tasks of one bucket
\* and priority of which the longer one is first in the collection, and two
\* that also have the same duration
C22_Witness ==
    /\ PlanCalled
    /\ Scheduled # fit_to_time_constraint(heap, available, Step3(WorkingSet))
    /\ \E a, b \in Range(Scheduled) :
          /\ TiedInBucket(a, b)
          /\ heap[a].duration > heap[b].duration
          /\ PosIn(tasks, a) < PosIn(tasks, b)
          /\ PosIn(Scheduled, b) < PosIn(Scheduled, a)
    /\ \E a, b \in Range(Scheduled) :
          TiedInBucket(a, b) /\ heap[a].duration = heap[b].duration

(***************************************************************************)
(* Specification of fit_to_time_constraint over tasks of several           *)
(* priorities, some of which do not fit the owner's hours                  *)
(***************************************************************************)
GreedyPool ==
    { Task("a", "walk", 90, 5, None, "", "once", FALSE, NoDate),
      Task("b", "walk", 90, 4, None, "", "once", FALSE, NoDate),
      Task("c", "walk", 30, 3, None, "", "once", FALSE, NoDate),
      Task("d", "walk", 30, 5, None, "", "once", FALSE, NoDate) }

\* the owner's available hours
GreedyHours == {2}

InitGreedy == InitOf(GreedyPool, {FFromInt(hours) : hours \in GreedyHours})
NextGreedy == \E lst \in ArgLists : FitToTimeConstraint(lst)
SpecGreedy == InitGreedy /\ [][NextGreedy]_vars

\* the list is in the order prioritize_tasks gives: priority descending,
\* equal priorities in ascending duration
PrioritySorted(lst) ==
    \A i, j \in 1..Len(lst) :
        i < j =>
            \/ heap[lst[i]].priority > heap[lst[j]].priority
            \/ /\ heap[lst[i]].priority = heap[lst[j]].priority
               /\ heap[lst[i]].duration <= heap[lst[j]].duration

\* C23: fit_to_time_constraint selects the highest-priority tasks until the
\* time constraint is reached: given a priority-sorted input, no task it
\* selects has a lower priority than a task it skips.
C23_HighestPriorityFirst ==
    (FitCalled /\ PrioritySorted(ret.arg)) =>
        \A o \in Range(ret.result), x \in Range(ret.arg) \ Range(ret.result) :
            heap[o].priority >= heap[x].priority

(***************************************************************************)
(* Specification of generate_plan for an owner whose hours the tasks can   *)
(* fill to the minute                                                      *)
(***************************************************************************)
BudgetPool ==
    { Task("stroll", "walk", 31, 5, "morning", "", "once", FALSE, NoDate),
      Task("pill", "medication", 4, 5, None, "", "once", FALSE, NoDate),
      Task("hike", "walk", 85, 3, "evening", "", "once", FALSE, NoDate) }

\* the owner's available hours
BudgetHours == {2}

InitBudget == InitOf(BudgetPool, {FFromInt(hours) : hours \in BudgetHours})
NextBudget ==
    \/ \E include_completed \in BOOLEAN : GeneratePlan(include_completed)
    \/ IsFeasible
SpecBudget == InitBudget /\ [][NextBudget]_vars

\* C24: every schedule generate_plan returns is feasible: the total of the
\* durations of its tasks is <= the owner's available hours, and
\* is_feasible() called on it returns true.
C24_PlanFeasible ==
    /\ PlanCalled => FLe(schedule.total_duration, available)
    /\ ret.op = "is_feasible" => ret.result = <<TRUE>>

ChainDates == {NoDate, 990, 2000}

\* the recurring tasks the chain can start from
ChainPool ==
    { Task("walk", "walk", 30, priority, "morning", "brisk", frequency, FALSE, due_date) :
        priority \in {2, 5}, frequency \in Recurring, due_date \in ChainDates }

\* a one-time task that the collection may hold besides
ChainOther == Task("toy", "enrichment", 15, 1, None, "", "once", FALSE, NoDate)

InitChain ==
    /\ heap \in {<<first>> : first \in ChainPool} \cup {<<ChainOther, first>> : first \in ChainPool}
    /\ tasks = [i \in 1..Len(heap) |-> i]
    /\ caller_tasks = tasks
    /\ same_list = Scheduler_keeps(caller_tasks)
    /\ available = FFromInt(4)
    /\ explanation_log = <<>>
    /\ schedule = DailySchedule
    /\ edits = 0
    /\ ret = NoCall

\* new = scheduler.complete_task(first), then new = scheduler.complete_task(new)
CompleteLatest ==
    IF ret.op = "none" THEN CompleteTask(Len(heap)) ELSE CompleteTask(ret.new)

NextChain == CompleteLatest
SpecChain == InitChain /\ [][NextChain]_vars

\* the tasks of the chain in the collection: the recurring ones
Chain == SelectSeq(tasks, LAMBDA o : heap[o].frequency \in Recurring)

\* the state of the chain C26 states after k calls, k + 1 being its length
ChainAfterCalls ==
    LET k      == Len(Chain) - 1
        d      == heap[Chain[1]].due_date
        period == DaysLater(heap[Chain[1]].frequency)
    IN  /\ k >= 1
        /\ CompleteCalled /\ ret.new = Chain[k + 1] /\ ret.task = Chain[k]
        /\ Cardinality(Range(Chain)) = k + 1
        /\ heap[Chain[k + 1]].due_date = d + k * period
        /\ \A i \in 1..(k + 1) : heap[Chain[i]].completed <=> i # k + 1

FramePool ==
    { Task("play", "enrichment", 120, 1, "afternoon", "", "once", FALSE, NoDate),
      Task("walk", "walk", 30, 5, "morning", "", "daily", FALSE, NoDate),
      Task("meds", "medication", 30, 4, None, "", "once", TRUE, NoDate),
      Task("brush", "grooming", 30, 4, "morning", "", "weekly", FALSE, NoDate) }

\* the owner's available hours
FrameHours == {2}

InitFrame == InitOf(FramePool, {FFromInt(hours) : hours \in FrameHours})
NextFrame ==
    \/ \E lst \in ArgLists, dflt \in BOOLEAN : PrioritizeTasks(lst, dflt)
    \/ \E lst \in ArgLists : FitToTimeConstraint(lst)
    \/ \E lst \in ArgLists : OptimizeSchedule(lst)
    \/ \E lst \in ArgLists, dflt \in BOOLEAN : DetectConflicts(lst, dflt)
    \/ \E include_completed \in BOOLEAN : GeneratePlan(include_completed)
SpecFrame == InitFrame /\ [][NextFrame]_vars

\* the calls C27 is about
SchedulingCalls ==
    {"generate_plan", "prioritize_tasks", "fit_to_time_constraint",
     "optimize_schedule", "detect_conflicts"}

\* C27: generate_plan, prioritize_tasks, fit_to_time_constraint,
\* optimize_schedule and detect_conflicts leave the scheduler's collection
\* (its members and their order) and every field of every task unchanged;
\* of the scheduler's state they change the explanation log only, and
\* detect_conflicts does not change that either.
C27_Frame ==
    [][ret'.op \in SchedulingCalls =>
          /\ tasks' = tasks
          /\ caller_tasks' = caller_tasks
          /\ heap' = heap
          /\ available' = available
          /\ ret'.op = "detect_conflicts" => explanation_log' = explanation_log]_vars

\* generate_plan has returned a plan in another order than the collection,
\* which is not in priority order and holds a completed task; the
\* collection is as the caller built it and the log has the call's messages
C27_Witness ==
    /\ PlanCalled
    /\ Len(tasks) >= 3
    /\ tasks = [i \in 1..Len(heap) |-> i]
    /\ prioritize_tasks(heap, tasks) # tasks
    /\ Len(Scheduled) >= 2
    /\ Scheduled # SelectSeq(tasks, LAMBDA o : o \in Range(Scheduled))
    /\ \E o \in Range(tasks) : heap[o].completed
    /\ explanation_log # <<>>

(***************************************************************************)
(* Specification of generate_plan for owners with few and with many hours  *)
(* and tasks that fill or overfill a bucket                                *)
(***************************************************************************)
\* "nap" is constructed with a duration of 0.5, which is stored as 0
SurvivorPool ==
    { Task_init("nap", "rest", 1, Num(3), "morning", "", "once", FALSE, NoDate).value[1],
      Task("m120", "walk", 120, 3, "morning", "", "once", FALSE, NoDate),
      Task("m121", "walk", 121, 3, "morning", "", "once", FALSE, NoDate),
      Task("n720", "trip", 720, 3, None, "", "once", FALSE, NoDate),
      Task("n721", "trip", 721, 3, None, "", "once", FALSE, NoDate) }

\* the owner's available time in minutes: 0.05, 4, 6 and 24 hours
SurvivorMinutes == {3, 240, 360, 1440}

InitSurvivor == InitOf(SurvivorPool, {FDivInt(m, 60) : m \in SurvivorMinutes})
NextSurvivor == \E include_completed \in BOOLEAN : GeneratePlan(include_completed)
SpecSurvivor == InitSurvivor /\ [][NextSurvivor]_vars

\* the warnings of a kind that generate_plan has logged
Logged(kind) ==
    SelectSeq(explanation_log, LAMBDA m : m.kind = kind)

\* C28: conflict detection inside generate_plan runs on the tasks that
\* survived the fit: every warning it logs counts the scheduled tasks of its
\* bucket; an overflow warning for morning, afternoon or evening is logged
\* only when the owner's available hours exceed 4, and none is ever logged
\* for the unscheduled bucket; a crowding warning can be logged under a
\* budget as small as 0.05 hours, as the witness shows.
C28_SurvivorsOnly ==
    PlanCalled =>
        /\ \A i \in 1..Len(Logged("overflow")) :
              LET w == Logged("overflow")[i]
              IN  /\ w.text # "unscheduled"
                  /\ w.text \in {"morning", "afternoon", "evening"} =>
                        FLt(FFromInt(4), available)
        /\ \A kind \in {"overflow", "crowding"} :
              \A i \in 1..Len(Logged(kind)) :
                  Logged(kind)[i].n =
                      Len(SelectSeq(Scheduled, LAMBDA o : BucketOf(heap[o]) = Logged(kind)[i].text))

\* generate_plan has logged a crowding warning for an owner with 0.05 hours
C28_Witness ==
    /\ PlanCalled
    /\ available = FDivInt(3, 60)
    /\ Len(Logged("crowding")) = 1
    /\ Logged("crowding")[1].text = "morning"
    /\ Len(Scheduled) = 4

\* C29: every Task that exists has a stored duration that is strictly
\* positive and a stored priority within [1,5], whatever numbers the
\* constructor and set_priority were given, whole or not, and whether
\* set_priority succeeded or failed.
C29_StoredInRange ==
    \A o \in 1..Len(heap) :
        /\ heap[o].duration > 0
        /\ heap[o].priority >= 1
        /\ heap[o].priority <= 5

(***************************************************************************)
(* Specification of a schedule edited while tasks of the collection are    *)
(* completed: add_task, complete_task and remove_task in any order         *)
(***************************************************************************)
\* the Task objects of the collection: a daily task and a monthly one that
\* is completed already
LookupTasks ==
    << Task("walk", "walk", 30, 5, "morning", "", "daily", FALSE, NoDate),
       Task("bath", "grooming", 60, 2, None, "", "monthly", TRUE, 2000) >>

InitLookup ==
    /\ heap = LookupTasks
    /\ tasks = [i \in 1..Len(heap) |-> i]
    /\ caller_tasks = tasks
    /\ same_list = Scheduler_keeps(caller_tasks)
    /\ available = FFromInt(4)
    /\ explanation_log = <<>>
    /\ schedule = DailySchedule
    /\ edits = 0
    /\ ret = NoCall
NextLookup ==
    \/ \E o \in 1..MaxHeap : AddTask(o, None)
    \/ \E o \in 1..MaxHeap : CompleteTask(o)
    \/ \E o \in 1..MaxHeap : RemoveTask(o)
SpecLookup == InitLookup /\ [][NextLookup]_vars

\* complete_task has returned a new task: it equals the completed one, and
\* the collection, which held the completed one, holds two equal elements
NewEqualsCompleted ==
    (CompleteCalled /\ ret.new # 0) =>
        /\ ret.new # ret.task
        /\ SameFive(ret.new, ret.task)
        /\ ret.task \in Range(tasks) =>
              \E i, j \in 1..Len(tasks) :
                  /\ i < j
                  /\ tasks[i] = ret.task /\ tasks[j] = ret.new
                  /\ SameFive(tasks[i], tasks[j])

\* C30: the task complete_task returns always compares equal to the task
\* that was completed, so the collection then holds two equal elements, and
\* remove_task called with the new task right after, on a schedule with an
\* entry that holds the completed original and none that holds the new
\* task, returns True and removes an entry that holds a task equal to it.
C30_NewEqualsOld ==
    [][/\ NewEqualsCompleted'
       /\ (/\ CompleteCalled /\ ret.new # 0
           /\ RemoveCalled' /\ ret'.task = ret.new
           /\ \E i \in 1..Len(schedule.scheduled_tasks) :
                 schedule.scheduled_tasks[i][2] = ret.task) =>
              /\ ret'.result = <<TRUE>>
              /\ \E i \in 1..Len(schedule.scheduled_tasks) :
                    /\ SameFive(schedule.scheduled_tasks[i][2], ret.task)
                    /\ schedule.scheduled_tasks[i][2] # ret.new
                    /\ schedule'.scheduled_tasks = Without(schedule.scheduled_tasks, i)]_vars

\* remove_task, called with the task that complete_task had just returned
\* for a scheduled task, has returned True and left the schedule empty: the
\* entry it removed held the completed original
C30_Witness ==
    /\ RemoveCalled
    /\ ret.result = <<TRUE>>
    /\ schedule.scheduled_tasks = <<>>
    /\ edits = 2
    /\ ret.task = Len(heap)
    /\ ~heap[ret.task].completed
    /\ \E o \in Range(tasks) :
          /\ o # ret.task
          /\ heap[o].completed
          /\ SameFive(o, ret.task)
          /\ heap[ret.task].due_date = heap[o].due_date + DaysLater(heap[o].frequency)

====
